---- MODULE Spec2Model ----
(***************************************************************************)
(* The Wordle game board of the town client: the envelope unwrapping of    *)
(* TownsServiceClient, the board derivation of GameBoard (constructBoards, *)
(* AllRows, WordleRow, BlankRow, WordleLetter) and the render loop of      *)
(* GameBoard, which fetches the game state on every render.                *)
(***************************************************************************)
EXTENDS Integers, Sequences, FiniteSets, TLC

VARIABLES
  server,         \* the GameState the towns service currently holds
  activeGame,     \* truthiness of currentConversationArea?.game
  mounted,        \* the GameBoard component instance is mounted
  gameover,       \* the gameover prop of GameBoard
  element,        \* the element state of GameBoard (useState)
  requests,       \* the getGameState promises that have not settled yet
  nextId,         \* issue number of the next getGameState call
  shownFrom,      \* issue number of the fetch whose snapshot element was built from
  last,           \* how the most recently settled getGameState promise ended
  data,           \* response.data handed to unwrapOrThrowError
  ignoreResponse, \* the ignoreResponse argument of unwrapOrThrowError
  unwrapped       \* the outcome of unwrapOrThrowError

vars == <<server, activeGame, mounted, gameover, element, requests, nextId,
          shownFrom, last, data, ignoreResponse, unwrapped>>

loopVars == <<activeGame, mounted, requests, nextId, shownFrom, last>>
unwrapVars == <<data, ignoreResponse, unwrapped>>

-----------------------------------------------------------------------------
(* Bounds of the model.                                                    *)

\* longest guess list a snapshot of the board specification carries
MaxGuesses == 7
\* getGameState calls one run of the render loop may issue
MaxFetches == 3
\* guesses the service accepts during one run of the render loop
LoopGuesses == 1

-----------------------------------------------------------------------------
(* JavaScript values.                                                      *)

\* an optional value: undefined, or a defined value
Undef == [defined |-> FALSE]
Some(v) == [defined |-> TRUE, value |-> v]

\* the value undefined where a string is expected (an unset prop)
Undefined == "undefined"

JsUndefined == [t |-> "undefined"]
JsNull == [t |-> "null"]
JsBool(b) == [t |-> "boolean", b |-> b]
JsNum(n) == [t |-> "number", n |-> n]
JsStr(s) == [t |-> "string", s |-> s]
JsEmptyObject == [t |-> "object", keys |-> {}]
JsStateObject(gs) == [t |-> "object", keys |-> {"state"}, state |-> gs]

\* JavaScript truthiness, as assert(value) tests it
Truthy(v) ==
  CASE v.t = "undefined" -> FALSE
    [] v.t = "null" -> FALSE
    [] v.t = "boolean" -> v.b
    [] v.t = "number" -> v.n # 0
    [] v.t = "string" -> v.s # ""
    [] OTHER -> TRUE

\* the string a template literal puts in for ${v}
TemplateString(v) ==
  CASE v.t = "undefined" -> "undefined"
    [] v.t = "null" -> "null"
    [] v.t = "string" -> v.s
    [] OTHER -> "[object Object]"

-----------------------------------------------------------------------------
(* TownsServiceClient.unwrapOrThrowError                                   *)

Return(v) == [kind |-> "return", value |-> v]
ThrowError(msg) == [kind |-> "throw", name |-> "Error", message |-> msg]
ThrowAssertion == [kind |-> "throw", name |-> "AssertionError"]

unwrapOrThrowErrorNoAssert(d, ignore) ==
  IF d.isOK
    THEN IF ignore THEN Return(JsEmptyObject) ELSE Return(d.response)
    ELSE ThrowError("Error processing request: " \o TemplateString(d.message))

unwrapOrThrowError(d, ignore) ==
  IF d.isOK
    THEN IF ignore
           THEN Return(JsEmptyObject)
           ELSE IF ~Truthy(d.response)
                  THEN ThrowAssertion
                  ELSE Return(d.response)
    ELSE ThrowError("Error processing request: " \o TemplateString(d.message))

-----------------------------------------------------------------------------
(* The board derivation of GameBoard.                                      *)

\* rows of a board (the loop bound of AllRows)
BoardRows == 6
\* cells of a blank row (the loop bound of BlankRow)
BlankCells == 5

playerID == "p1"
Teams == {"red", "blue"}
Players == {"p1", "p2"}

Button(variant, colorScheme, children) ==
  [variant |-> variant, colorScheme |-> colorScheme, children |-> children]

\* letterColorMatch.get(color)
letterColorMatch(color) ==
  CASE color = 0 -> "gray"
    [] color = 1 -> "green"
    [] color = -1 -> "yellow"
    [] OTHER -> Undefined

WordleLetter(letter, color) ==
  Button("solid", letterColorMatch(color), letter)

WordleRow(guessArray, letterColors, showLetters) ==
  [index \in 1..Len(guessArray) |->
     WordleLetter(IF showLetters THEN guessArray[index] ELSE "",
                  letterColors[index])]

BlankRow == [i \in 1..BlankCells |-> Button("outline", Undefined, "")]

AllRowsNewestFirst(guessRows) ==
  IF guessRows.defined
    THEN [i \in 1..BoardRows |->
            IF Len(guessRows.value) >= i
              THEN guessRows.value[Len(guessRows.value) + 1 - i]
              ELSE BlankRow]
    ELSE <<>>

AllRowsNoPadding(guessRows) ==
  IF guessRows.defined
    THEN SubSeq(guessRows.value, 1,
                IF Len(guessRows.value) < BoardRows
                  THEN Len(guessRows.value) ELSE BoardRows)
    ELSE <<>>

AllRows(guessRows) ==
  IF guessRows.defined
    THEN [i \in 1..BoardRows |->
            IF Len(guessRows.value) > i - 1
              THEN guessRows.value[i]
              ELSE BlankRow]
    ELSE <<>>

\* !x for x undefined or a boolean
Not(x) == ~x.defined \/ ~x.value

\* teamState?.teamMembers.includes(id)
includesMember(teamState, id) ==
  IF teamState.defined THEN Some(id \in teamState.value.teamMembers) ELSE Undef

\* teamState?.guesses
guessesOf(teamState) ==
  IF teamState.defined THEN Some(teamState.value.guesses) ELSE Undef

showLettersAnd(otherTeam, over) == Not(otherTeam) /\ over

\* the showLetters prop: (!otherTeam) || gameover
showLetters(otherTeam, over) == Not(otherTeam) \/ over

\* guesses?.map(guess => <WordleRow ... />)
mapRows(guesses, show) ==
  IF guesses.defined
    THEN Some([index \in 1..Len(guesses.value) |->
                 WordleRow(guesses.value[index].word,
                           guesses.value[index].guessResult, show)])
    ELSE Undef

EmptyElement == [kind |-> "empty"]

constructBoards(gameState, over) ==
  LET redTeam == includesMember(gameState.teamOneState, playerID)
      blueTeam == includesMember(gameState.teamTwoState, playerID)
      redGuesses == guessesOf(gameState.teamOneState)
      blueGuesses == guessesOf(gameState.teamTwoState)
      yourTeamHeader == IF Not(redTeam) /\ Not(blueTeam)
                          THEN "You are Spectating!" ELSE "You are on a team!"
      displayText == IF over THEN "Game Over" ELSE yourTeamHeader
      redRows == mapRows(redGuesses, showLetters(blueTeam, over))
      blueRows == mapRows(blueGuesses, showLetters(redTeam, over))
  IN [kind |-> "board",
      redBoard |-> AllRows(redRows),
      blueBoard |-> AllRows(blueRows),
      displayText |-> displayText,
      isDisabled |-> (Not(redTeam) /\ Not(blueTeam))]

-----------------------------------------------------------------------------
(* Inputs of the bounded checks.                                           *)

CRANE == [word |-> <<"C", "R", "A", "N", "E">>, guessResult |-> <<0, 1, -1, 0, 0>>]
SAUTE == [word |-> <<"S", "A", "U", "T", "E">>, guessResult |-> <<1, 1, 1, 1, 1>>]
\* a guess whose first colour code the service sent outside {-1, 0, 1}
ABBEY == [word |-> <<"A", "B", "B", "E", "Y">>, guessResult |-> <<2, 0, -1, 1, -1>>]

GuessPool == <<CRANE, SAUTE, ABBEY>>

\* n guesses in submission order, starting at guess s of the pool
guessWindow(n, s) ==
  [i \in 1..n |-> GuessPool[((i + s - 2) % Len(GuessPool)) + 1]]

TeamState(members, guesses) == Some([teamMembers |-> members, guesses |-> guesses])

TeamStates ==
  {Undef} \cup
  {TeamState(m, guessWindow(n, s)) :
     m \in SUBSET Players, n \in 0..MaxGuesses, s \in 1..Len(GuessPool)}

GameState(one, two) == [teamOneState |-> one, teamTwoState |-> two]

Snapshots == {GameState(one, two) : one \in TeamStates, two \in TeamStates}

NoGame == GameState(Undef, Undef)

Envelope(ok, msg, resp) == [isOK |-> ok, message |-> msg, response |-> resp]

Payloads ==
  {JsUndefined, JsNull, JsBool(FALSE), JsBool(TRUE), JsNum(0), JsNum(1),
   JsStr(""), JsStr("x"), JsEmptyObject, JsStateObject(NoGame)}

Messages == {JsUndefined, JsStr(""), JsStr("m")}

Envelopes ==
  {Envelope(ok, msg, resp) : ok \in BOOLEAN, msg \in Messages, resp \in Payloads}

Pending == [kind |-> "pending"]
NoSettle == [settled |-> "none", valid |-> TRUE]

LoopIdle ==
  /\ activeGame = FALSE
  /\ mounted = TRUE
  /\ requests = <<>>
  /\ nextId = 1
  /\ shownFrom = 0
  /\ last = NoSettle

UnwrapIdle ==
  /\ data = Envelope(TRUE, JsUndefined, JsEmptyObject)
  /\ ignoreResponse = FALSE
  /\ unwrapped = Pending

-----------------------------------------------------------------------------
(* Board derivation on one snapshot: the body of the .then callback of     *)
(* GameBoard applied to a snapshot the service returned.                   *)

InitBoard ==
  /\ server \in Snapshots
  /\ gameover \in BOOLEAN
  /\ element = EmptyElement
  /\ LoopIdle
  /\ UnwrapIdle

DeriveBoards ==
  /\ element = EmptyElement
  /\ element' = constructBoards(server, gameover)
  /\ UNCHANGED <<server, gameover, loopVars, unwrapVars>>

NextBoard == DeriveBoards

SpecBoard == InitBoard /\ [][NextBoard]_vars

-----------------------------------------------------------------------------
(* Envelope unwrapping on one envelope.                                    *)

InitUnwrap ==
  /\ data \in Envelopes
  /\ ignoreResponse \in BOOLEAN
  /\ unwrapped = Pending
  /\ server = NoGame
  /\ gameover = FALSE
  /\ element = EmptyElement
  /\ LoopIdle

Unwrap ==
  /\ unwrapped = Pending
  /\ unwrapped' = unwrapOrThrowError(data, ignoreResponse)
  /\ UNCHANGED <<server, gameover, element, loopVars, data, ignoreResponse>>

NextUnwrap == Unwrap

SpecUnwrap == InitUnwrap /\ [][NextUnwrap]_vars

-----------------------------------------------------------------------------
(* The render loop of GameBoard: every render with an active game calls    *)
(* getGameState, and the .then callback builds the boards and sets the     *)
(* element state, which renders the component again.                       *)

Sent(over) == [status |-> "sent", over |-> over]
Answered(over, d) == [status |-> "answered", over |-> over, data |-> d]

without(reqs, id) == [r \in DOMAIN reqs \ {id} |-> reqs[r]]

\* the issue counter is capped: a render that would fetch needs a free number
canRender(active) == active => nextId <= MaxFetches

\* the body of GameBoard: fetch when the game session is active
renderGameBoard(active, over, reqs) ==
  IF active
    THEN /\ requests' = reqs @@ (nextId :> Sent(over))
         /\ nextId' = nextId + 1
    ELSE /\ requests' = reqs
         /\ nextId' = nextId

\* a render of the mounted component, if it is mounted
rerender(active, over, reqs) ==
  IF mounted
    THEN canRender(active) /\ renderGameBoard(active, over, reqs)
    ELSE requests' = reqs /\ nextId' = nextId

\* an activation: the parent renders again, or the input state changes
Render ==
  /\ mounted
  /\ canRender(activeGame)
  /\ renderGameBoard(activeGame, gameover, requests)
  /\ UNCHANGED <<server, activeGame, mounted, gameover, element, shownFrom,
                 last, unwrapVars>>

\* usePlayerConversationArea reports an area with a game
EnterGame ==
  /\ ~activeGame
  /\ activeGame' = TRUE
  /\ rerender(TRUE, gameover, requests)
  /\ UNCHANGED <<server, mounted, gameover, element, shownFrom, last, unwrapVars>>

\* the player leaves the area, or the area's game ends
LeaveGame ==
  /\ activeGame
  /\ activeGame' = FALSE
  /\ rerender(FALSE, gameover, requests)
  /\ UNCHANGED <<server, mounted, gameover, element, shownFrom, last, unwrapVars>>

\* the parent passes gameover = true
GameOver ==
  /\ ~gameover
  /\ gameover' = TRUE
  /\ rerender(activeGame, TRUE, requests)
  /\ UNCHANGED <<server, activeGame, mounted, element, shownFrom, last, unwrapVars>>

Unmount ==
  /\ mounted
  /\ mounted' = FALSE
  /\ UNCHANGED <<server, activeGame, gameover, element, requests, nextId,
                 shownFrom, last, unwrapVars>>

\* the service starts the game: both teams get a roster
ServerStart ==
  /\ server = NoGame
  /\ server' = GameState(TeamState({"p2"}, <<>>), TeamState({"p1"}, <<>>))
  /\ UNCHANGED <<gameover, element, loopVars, unwrapVars>>

\* the service accepts a guess of a team
ServerGuess(X) ==
  LET one == server.teamOneState
      two == server.teamTwoState
      n == Len(one.value.guesses) + Len(two.value.guesses)
      g == guessWindow(n + 1, 1)[n + 1]
  IN /\ one.defined /\ two.defined
     /\ n < LoopGuesses
     /\ server' =
          IF X = "red"
            THEN GameState(TeamState(one.value.teamMembers,
                                     Append(one.value.guesses, g)), two)
            ELSE GameState(one, TeamState(two.value.teamMembers,
                                          Append(two.value.guesses, g)))
     /\ UNCHANGED <<gameover, element, loopVars, unwrapVars>>

\* the service answers a gamestate request with an envelope
Respond(id) ==
  /\ id \in DOMAIN requests
  /\ requests[id].status = "sent"
  /\ \E d \in {Envelope(TRUE, JsUndefined, JsStateObject(server)),
               Envelope(FALSE, JsStr("m"), JsUndefined)} :
       requests' = [requests EXCEPT ![id] = Answered(requests[id].over, d)]
  /\ UNCHANGED <<server, activeGame, mounted, gameover, element, nextId,
                 shownFrom, last, unwrapVars>>

\* TownsServiceClient.getGameState on the answer of request id
getGameStateResult(id) == unwrapOrThrowError(requests[id].data, FALSE)

\* the promise of request id resolves: the .then callback runs
SettleThen(id) ==
  /\ id \in DOMAIN requests
  /\ requests[id].status = "answered"
  /\ getGameStateResult(id).kind = "return"
  /\ last' = [settled |-> "then", valid |-> (mounted /\ activeGame)]
  /\ IF mounted
       THEN /\ element' = constructBoards(getGameStateResult(id).value.state,
                                          requests[id].over)
            /\ shownFrom' = id
       ELSE UNCHANGED <<element, shownFrom>>
  /\ rerender(activeGame, gameover, without(requests, id))
  /\ UNCHANGED <<server, activeGame, mounted, gameover, unwrapVars>>

\* the promise of request id rejects: no handler is attached
SettleRejected(id) ==
  /\ id \in DOMAIN requests
  /\ requests[id].status = "answered"
  /\ getGameStateResult(id).kind = "throw"
  /\ last' = [settled |-> "rejected", valid |-> (mounted /\ activeGame)]
  /\ requests' = without(requests, id)
  /\ UNCHANGED <<server, activeGame, mounted, gameover, element, nextId,
                 shownFrom, unwrapVars>>

Init ==
  /\ server = NoGame
  /\ gameover = FALSE
  /\ element = EmptyElement
  /\ LoopIdle
  /\ UnwrapIdle

Next ==
  \/ Render
  \/ EnterGame
  \/ LeaveGame
  \/ GameOver
  \/ Unmount
  \/ ServerStart
  \/ \E X \in Teams : ServerGuess(X)
  \/ \E id \in 1..MaxFetches : Respond(id)
  \/ \E id \in 1..MaxFetches : SettleThen(id)
  \/ \E id \in 1..MaxFetches : SettleRejected(id)

Spec == Init /\ [][Next]_vars

-----------------------------------------------------------------------------
(* Properties of the board derivation, checked under SpecBoard.            *)

ownTeam(X) == IF X = "red" THEN server.teamOneState ELSE server.teamTwoState
opposingTeam(X) == IF X = "red" THEN server.teamTwoState ELSE server.teamOneState
boardOf(X) == IF X = "red" THEN element.redBoard ELSE element.blueBoard
guessCount(X) == IF ownTeam(X).defined THEN Len(ownTeam(X).value.guesses) ELSE 0
shownCount(X) == IF guessCount(X) < BoardRows THEN guessCount(X) ELSE BoardRows
guessAt(X, i) == ownTeam(X).value.guesses[i]
memberOf(team) == team.defined /\ playerID \in team.value.teamMembers
withinContract == \A X \in Teams : guessCount(X) <= BoardRows
ValidCodes == {-1, 0, 1}
shownColor(code) == IF code = -1 THEN "yellow" ELSE IF code = 0 THEN "gray" ELSE "green"

\* C1: every guess row of team X shows its letters iff the observer is not a
\* member of the opposing team Y or the game is over, and shows the colour
\* of every (valid) colour code whatever the observer's membership.
C1_Visibility ==
  element.kind = "board" =>
    \A X \in Teams : \A i \in 1..shownCount(X) :
      LET reveal == ~memberOf(opposingTeam(X)) \/ gameover
          g == guessAt(X, i)
          row == boardOf(X)[i]
      IN /\ Len(row) = Len(g.word)
         /\ \A j \in 1..Len(g.word) :
              /\ row[j].children = (IF reveal THEN g.word[j] ELSE "")
              /\ g.guessResult[j] \in ValidCodes =>
                   row[j].colorScheme = shownColor(g.guessResult[j])

C1_Witness ==
  /\ element.kind = "board"
  /\ ~gameover
  /\ memberOf(server.teamTwoState)
  /\ guessCount("red") = 2
  /\ guessAt("red", 1) = CRANE
  /\ element.redBoard[1][1] = Button("solid", "gray", "")
  /\ element.redBoard[1][2] = Button("solid", "green", "")

\* C2 as stated: every snapshot with 0..6 guesses per team (a team absent
\* or present) gives exactly 6 rows on each team's board.
C2_SixRowsAlways ==
  (element.kind = "board" /\ withinContract) =>
    \A X \in Teams : Len(boardOf(X)) = BoardRows

\* C2 amended: with 0..6 guesses per team, the board of every present team
\* has exactly 6 rows and the board of an absent team has no rows.
C2_SixRowsWhenPresent ==
  (element.kind = "board" /\ withinContract) =>
    \A X \in Teams :
      Len(boardOf(X)) = (IF ownTeam(X).defined THEN BoardRows ELSE 0)

C2_Witness ==
  /\ element.kind = "board"
  /\ withinContract
  /\ guessCount("red") = 2
  /\ ~server.teamTwoState.defined
  /\ Len(element.redBoard) = BoardRows
  /\ Len(element.blueBoard) = 0

\* C5: the colour lookup never yields an undefined (or defaulted) display
\* value: a board whose guesses carry a code outside {-1, 0, 1} is not
\* rendered, and -1, 0, 1 show as yellow, gray, green.
C5_ColorMappingTotal ==
  element.kind = "board" =>
    \A X \in Teams : \A i \in 1..shownCount(X) :
      \A j \in 1..Len(guessAt(X, i).word) :
        /\ guessAt(X, i).guessResult[j] \in ValidCodes
        /\ boardOf(X)[i][j].colorScheme = shownColor(guessAt(X, i).guessResult[j])

\* C8: no board is rendered from a snapshot that carries more than 6
\* guesses for a team (the derivation fails instead of clamping to 6 rows).
C8_FailsBeyondSixGuesses ==
  element.kind = "board" => withinContract

\* C9: for a present team with n <= 6 guesses, row i <= n is built from the
\* i-th guess in submission order, cell j carrying the colour of code j, and
\* every later row up to the 6th is a blank row of 5 empty, unfilled cells.
C9_RowsInOrder ==
  element.kind = "board" =>
    \A X \in Teams :
      (ownTeam(X).defined /\ guessCount(X) <= BoardRows) =>
        /\ \A i \in 1..guessCount(X) :
             /\ Len(boardOf(X)[i]) = Len(guessAt(X, i).word)
             /\ \A j \in 1..Len(guessAt(X, i).word) :
                  LET cell == boardOf(X)[i][j]
                      code == guessAt(X, i).guessResult[j]
                  IN /\ cell.variant = "solid"
                     /\ cell.children \in {guessAt(X, i).word[j], ""}
                     /\ cell.colorScheme =
                          (IF code \in ValidCodes THEN shownColor(code) ELSE Undefined)
        /\ \A i \in (guessCount(X) + 1)..BoardRows :
             /\ Len(boardOf(X)[i]) = BlankCells
             /\ \A j \in 1..BlankCells :
                  boardOf(X)[i][j] = Button("outline", Undefined, "")

C9_Witness ==
  /\ element.kind = "board"
  /\ guessCount("blue") = 3
  /\ guessAt("blue", 1) = SAUTE
  /\ guessAt("blue", 2) = ABBEY
  /\ guessAt("blue", 3) = CRANE
  /\ ~memberOf(server.teamOneState)
  /\ element.blueBoard[1][1] = Button("solid", "green", "S")
  /\ element.blueBoard[3][3] = Button("solid", "yellow", "A")
  /\ element.blueBoard[4] = BlankRow
  /\ element.blueBoard[6] = BlankRow

-----------------------------------------------------------------------------
(* Properties of the envelope unwrapping, checked under SpecUnwrap.        *)

\* C4 as stated: {isOK:true, response:X} returns X; {isOK:false,
\* message:"m"} raises an error with message "m"; {isOK:true} without a
\* response, payload not ignored, raises.
C4_UnwrapAsStated ==
  unwrapped # Pending =>
    /\ (data.isOK /\ ~ignoreResponse /\ data.response # JsUndefined) =>
         unwrapped = Return(data.response)
    /\ (~data.isOK /\ data.message.t = "string") =>
         (unwrapped.kind = "throw" /\ unwrapped.message = data.message.s)
    /\ (data.isOK /\ ~ignoreResponse /\ data.response = JsUndefined) =>
         unwrapped.kind = "throw"

\* C4 amended: with the payload not ignored, {isOK:true, response:X} returns
\* X when X is truthy and raises an AssertionError when X is missing or
\* falsy; {isOK:false, message:"m"} raises an Error whose message is
\* "Error processing request: m".
C4_Unwrap ==
  unwrapped # Pending =>
    /\ (data.isOK /\ ~ignoreResponse /\ Truthy(data.response)) =>
         unwrapped = Return(data.response)
    /\ (data.isOK /\ ~ignoreResponse /\ ~Truthy(data.response)) =>
         unwrapped = ThrowAssertion
    /\ (~data.isOK /\ data.message.t = "string") =>
         unwrapped = ThrowError("Error processing request: " \o data.message.s)

C4_Witness ==
  /\ data = Envelope(FALSE, JsStr("m"), JsUndefined)
  /\ unwrapped = ThrowError("Error processing request: m")

-----------------------------------------------------------------------------
(* Properties of the render loop, checked under Spec.                      *)

\* C3: at most one getGameState fetch is in flight at any time.
C3_AtMostOneInFlight == Cardinality(DOMAIN requests) <= 1

\* C6: a fetch that fails is handled: once a getGameState promise has
\* rejected, an error state is committed for display.
C6_FailureHandled == last.settled = "rejected" => element.kind = "error"

\* C7: the completion of a fetch runs constructBoards / setElement only
\* while the session context (mounted component, active game) is valid.
C7_DiscardedAfterTeardown == last.settled = "then" => last.valid

\* C10: the view is never replaced by one built from the response of an
\* earlier-issued fetch than the one it was built from.
C10_NoStaleOverwrite == [][shownFrom' >= shownFrom]_vars

====
